---- MODULE Spec2Model ----
(***************************************************************************)
(* Model of openai_helper/context.py: the ContextProvider that walks a     *)
(* directory tree, filters the files, reads them in chunks under a token   *)
(* budget and formats the context string.                                  *)
(*                                                                         *)
(* Text (file names, path strings, patterns, file contents) is a sequence  *)
(* of one-character strings.  The file system is a finite table of nodes.  *)
(***************************************************************************)
EXTENDS Integers, Sequences, FiniteSets, TLC

VARIABLES
    fs,            \* the directory tree under self.directory (unchanged by the program)
    cfg,           \* the provider's fields after __init__
    chunk_size,    \* chunk_size[g]: argument of iter_files call g
    token_limit,   \* token_limit[g]: argument of iter_files call g
    running,       \* 0: the caller has control; g: generator g is executing
    pc,            \* pc[g]: where generator g stands in iter_files
    idx,           \* idx[g]: number of paths generator g has pulled from iter_file_paths
    handle,        \* handle[g]: TRUE while the file object of the `with` block is open
    nreads,        \* nreads[g]: number of file.read calls made on the current file
    fpos,          \* fpos[g]: characters of the current file already read
    file_content,  \* file_content[g]: local variable file_content
    file_tokens,   \* file_tokens[g]: local variable file_tokens
    total_tokens,  \* total_tokens[g]: local variable total_tokens
    out,           \* out[g]: the records generator g has yielded so far
    call,          \* the last whole call made on the provider (CallSpec)
    result         \* what that call returned (CallSpec)

vars == <<fs, cfg, chunk_size, token_limit, running, pc, idx, handle, nreads,
          fpos, file_content, file_tokens, total_tokens, out, call, result>>

genVars == <<chunk_size, token_limit, running, pc, idx, handle, nreads,
             fpos, file_content, file_tokens, total_tokens, out>>

callVars == <<call, result>>

(***************************************************************************)
(* Text helpers                                                            *)
(***************************************************************************)
SP == " "
NL == "\n"

\* str.startswith(".") on a name
StartsWithDot(s) == Len(s) > 0 /\ s[1] = "."

RECURSIVE LStrip(_)
LStrip(s) == IF s # <<>> /\ Head(s) = SP THEN LStrip(Tail(s)) ELSE s

RECURSIVE RStrip(_)
RStrip(s) == IF s # <<>> /\ s[Len(s)] = SP THEN RStrip(SubSeq(s, 1, Len(s) - 1)) ELSE s

\* str.strip(): leading and trailing whitespace removed, inner whitespace kept
Strip(s) == RStrip(LStrip(s))

\* len(encoding.encode(chunk)): the tokenizer is an external pure function; it is
\* modelled as the number of maximal runs of non-space characters, so that the
\* empty text has 0 tokens and every other stripped text has at least 1.
CountTokens(s) ==
    Cardinality({i \in 1..Len(s) : s[i] # SP /\ (i = 1 \/ s[i - 1] = SP)})

(***************************************************************************)
(* Regular expressions: re.compile(p).search(s) for patterns made of       *)
(* literal characters, "." (any character), "\\." (a literal dot), a       *)
(* leading "^" and a trailing "$".                                         *)
(***************************************************************************)
PatStart(p) == Len(p) > 0 /\ p[1] = "^"
PatEnd(p) == Len(p) > 0 /\ p[Len(p)] = "$"
PatBody(p) ==
    LET a == IF PatStart(p) THEN Tail(p) ELSE p
    IN  IF Len(a) > 0 /\ a[Len(a)] = "$" THEN SubSeq(a, 1, Len(a) - 1) ELSE a

PatChar(t, c) == t = "." \/ (t = "\\." /\ c = ".") \/ (t # "\\." /\ t = c)

MatchAt(p, s, i) ==
    LET b == PatBody(p)
    IN  /\ i + Len(b) - 1 <= Len(s)
        /\ \A k \in 1..Len(b) : PatChar(b[k], s[i + k - 1])
        /\ PatStart(p) => i = 1
        /\ PatEnd(p) => i + Len(b) - 1 = Len(s)

Search(p, s) == \E i \in 1..(Len(s) + 1) : MatchAt(p, s, i)

(***************************************************************************)
(* The file system                                                         *)
(***************************************************************************)
RootName == <<"r">>

File(par, nm, txt, bad) ==
    [parent |-> par, name |-> nm, kind |-> "file", content |-> txt, failAt |-> bad]
Dir(par, nm) ==
    [parent |-> par, name |-> nm, kind |-> "dir", content |-> <<>>, failAt |-> 0]
Other(par, nm) ==
    [parent |-> par, name |-> nm, kind |-> "other", content |-> <<>>, failAt |-> 0]

\* Node 0 is self.directory; node n > 0 is fs[n]; failAt = k > 0 makes the k-th
\* file.read of that file raise UnicodeDecodeError.
Trees ==
    { << File(0, <<"a">>, <<"a", "b">>, 0),
         File(0, <<".", "h">>, <<"b">>, 0),
         Dir(0, <<"d">>),
         File(3, <<"c">>, <<"a", SP, "b">>, 0),
         Dir(0, <<".", "g">>),
         File(5, <<"e">>, <<"b">>, 0) >>,
      << File(0, <<"w">>, <<SP>>, 0),
         File(0, <<"x">>, <<"a", "b">>, 1),
         Other(0, <<"o">>),
         File(0, <<"y">>, <<"b", SP, "a">>, 0),
         File(0, <<"z">>, <<"a">>, 0) >>,
      << File(0, <<"e">>, <<>>, 0),
         File(0, <<"p">>, <<"a", SP, "a">>, 2),
         Dir(0, <<"d">>),
         Dir(3, <<".", "g">>),
         File(4, <<".", "q">>, <<SP, "b">>, 0),
         File(3, <<"a", ".", "p">>, <<"b">>, 0) >> }

Nodes == 1..Len(fs)

\* Path.name
Name(n) == IF n = 0 THEN RootName ELSE fs[n].name

\* str(path): self.directory joined with the names below it
RECURSIVE PathStr(_)
PathStr(n) == IF n = 0 THEN RootName ELSE PathStr(fs[n].parent) \o <<"/">> \o fs[n].name

\* str(path.relative_to(self.directory))
RECURSIVE RelPath(_)
RelPath(n) ==
    IF fs[n].parent = 0 THEN fs[n].name ELSE RelPath(fs[n].parent) \o <<"/">> \o fs[n].name

IsFile(n) == fs[n].kind = "file"
IsDir(n) == fs[n].kind = "dir"

\* top.iterdir(): the entries of directory d, in the listing order of the tree
RECURSIVE IterDirFrom(_, _)
IterDirFrom(d, n) ==
    IF n > Len(fs) THEN <<>>
    ELSE (IF fs[n].parent = d THEN <<n>> ELSE <<>>) \o IterDirFrom(d, n + 1)

IterDir(d) == IterDirFrom(d, 1)

(***************************************************************************)
(* __init__                                                                *)
(***************************************************************************)
NoPattern == [set |-> FALSE, pat |-> <<>>]

\* re.compile(x) if x else None: None and the empty string both give None
Compile(x) == IF x.given /\ x.str # <<>> THEN [set |-> TRUE, pat |-> x.str] ELSE NoPattern

Construct(a) ==
    [regex_whitelist |-> Compile(a.regex_whitelist),
     regex_blacklist |-> Compile(a.regex_blacklist),
     allow_hidden |-> a.allow_hidden,
     recursive |-> a.recursive,
     allow_hidden_subdirectories |-> a.allow_hidden_subdirectories,
     regex_path_whitelist |-> Compile(a.regex_path_whitelist),
     regex_path_blacklist |-> Compile(a.regex_path_blacklist),
     skip_unreadable |-> a.skip_unreadable,
     skip_empty |-> a.skip_empty]

Absent == [given |-> FALSE, str |-> <<>>]
Given(s) == [given |-> TRUE, str |-> s]

(***************************************************************************)
(* _file_matches                                                           *)
(***************************************************************************)
\* mutant: the path blacklist is searched in the base name, not in the path string
FileMatchesBlacklistOnName(n) ==
    IF ~cfg.allow_hidden /\ StartsWithDot(Name(n)) THEN FALSE
    ELSE IF cfg.regex_whitelist.set /\ ~Search(cfg.regex_whitelist.pat, Name(n)) THEN FALSE
    ELSE IF cfg.regex_blacklist.set /\ Search(cfg.regex_blacklist.pat, Name(n)) THEN FALSE
    ELSE IF cfg.regex_path_whitelist.set
            /\ ~Search(cfg.regex_path_whitelist.pat, PathStr(n)) THEN FALSE
    ELSE IF cfg.regex_path_blacklist.set
            /\ Search(cfg.regex_path_blacklist.pat, Name(n)) THEN FALSE
    ELSE TRUE

FileMatches(n) ==
    IF ~cfg.allow_hidden /\ StartsWithDot(Name(n)) THEN FALSE
    ELSE IF cfg.regex_whitelist.set /\ ~Search(cfg.regex_whitelist.pat, Name(n)) THEN FALSE
    ELSE IF cfg.regex_blacklist.set /\ Search(cfg.regex_blacklist.pat, Name(n)) THEN FALSE
    ELSE IF cfg.regex_path_whitelist.set
            /\ ~Search(cfg.regex_path_whitelist.pat, PathStr(n)) THEN FALSE
    ELSE IF cfg.regex_path_blacklist.set
            /\ Search(cfg.regex_path_blacklist.pat, PathStr(n)) THEN FALSE
    ELSE TRUE

(***************************************************************************)
(* iter_file_paths                                                         *)
(***************************************************************************)
\* mutant: hidden subdirectories are walked like the others
DescendAlways(n) == cfg.recursive /\ IsDir(n)

\* the test that guards the recursive call
Descend(n) ==
    /\ cfg.recursive
    /\ IsDir(n)
    /\ cfg.allow_hidden_subdirectories \/ ~StartsWithDot(Name(n))

RECURSIVE IterFilePaths(_)
RECURSIVE WalkEntries(_)
WalkEntries(es) ==
    IF es = <<>> THEN <<>>
    ELSE LET n == Head(es)
             here == IF IsFile(n)
                        THEN (IF FileMatches(n) THEN <<n>> ELSE <<>>)
                        ELSE IF Descend(n) THEN IterFilePaths(n) ELSE <<>>
         IN  here \o WalkEntries(Tail(es))

IterFilePaths(top) == WalkEntries(IterDir(top))

(***************************************************************************)
(* iter_files, step by step.  A generator runs only between a pull by its  *)
(* caller and its next yield, return or raise: `running` names the         *)
(* generator that is executing, 0 when the caller has control.             *)
(***************************************************************************)
Gens == {1, 2}

Record(t, n, c) == [tokens |-> t, path |-> n, content |-> c]

\* the sequence the for statement of iter_files pulls its paths from (top = None)
Paths == IterFilePaths(0)

Cur(g) == Paths[idx[g]]

\* mutant: the running total kept in one place for every call of the provider
CounterShared(g) == 1

\* the frame that holds the local variable total_tokens of call g
Counter(g) == g

\* file.read(chunk_size) at position p of file n
ReadAt(n, p, size) ==
    LET txt == fs[n].content
        hi == IF p + size < Len(txt) THEN p + size ELSE Len(txt)
    IN  SubSeq(txt, p + 1, hi)

\* the k-th read of file n raises UnicodeDecodeError
ReadRaises(n, k) == fs[n].failAt = k

\* the caller asks generator g for its next value
Pull(g) ==
    /\ running = 0
    /\ pc[g] \in {"new", "yield99", "yield104"}
    /\ running' = g
    /\ pc' = [pc EXCEPT ![g] = CASE pc[g] = "new" -> "start"
                                 [] pc[g] = "yield99" -> "return100"
                                 [] pc[g] = "yield104" -> "line113"]
    /\ UNCHANGED <<fs, cfg, chunk_size, token_limit, idx, handle, nreads, fpos,
                   file_content, file_tokens, total_tokens, out, call, result>>

\* lines 75-76: total_tokens = 0
Start(g) ==
    /\ running = g
    /\ pc[g] = "start"
    /\ total_tokens' = [total_tokens EXCEPT ![Counter(g)] = 0]
    /\ pc' = [pc EXCEPT ![g] = "for"]
    /\ UNCHANGED <<fs, cfg, chunk_size, token_limit, running, idx, handle, nreads,
                   fpos, file_content, file_tokens, out, call, result>>

\* line 78: the for statement takes the next path, or the generator ends
ForNext(g) ==
    /\ running = g
    /\ pc[g] = "for"
    /\ IF idx[g] < Len(Paths)
          THEN /\ idx' = [idx EXCEPT ![g] = idx[g] + 1]
               /\ pc' = [pc EXCEPT ![g] = "open"]
               /\ UNCHANGED running
          ELSE /\ pc' = [pc EXCEPT ![g] = "done"]
               /\ running' = 0
               /\ UNCHANGED idx
    /\ UNCHANGED <<fs, cfg, chunk_size, token_limit, handle, nreads, fpos,
                   file_content, file_tokens, total_tokens, out, call, result>>

\* lines 80-82: open the file, file_content = "", file_tokens = 0
OpenFile(g) ==
    /\ running = g
    /\ pc[g] = "open"
    /\ handle' = [handle EXCEPT ![g] = TRUE]
    /\ nreads' = [nreads EXCEPT ![g] = 0]
    /\ fpos' = [fpos EXCEPT ![g] = 0]
    /\ file_content' = [file_content EXCEPT ![g] = <<>>]
    /\ file_tokens' = [file_tokens EXCEPT ![g] = 0]
    /\ pc' = [pc EXCEPT ![g] = "read"]
    /\ UNCHANGED <<fs, cfg, chunk_size, token_limit, running, idx, total_tokens,
                   out, call, result>>

\* mutant: the budget test stops when the limit is reached, not only when exceeded
OverLimitInclusive(total, limit) == total >= limit

\* the test of line 98
OverLimit(total, limit) == total > limit

\* lines 85-100: a non-empty chunk is read, stripped, appended and counted; when
\* the running total exceeds the limit the record is yielded inside the with block
ReadChunk(g) ==
    /\ running = g
    /\ pc[g] = "read"
    /\ ~ReadRaises(Cur(g), nreads[g] + 1)
    /\ LET raw == ReadAt(Cur(g), fpos[g], chunk_size[g])
           chunk == Strip(raw)
           chunk_tokens == CountTokens(chunk)
           content == file_content[g] \o chunk
           total == total_tokens[Counter(g)] + chunk_tokens
       IN  /\ raw # <<>>
           /\ nreads' = [nreads EXCEPT ![g] = nreads[g] + 1]
           /\ fpos' = [fpos EXCEPT ![g] = fpos[g] + Len(raw)]
           /\ file_content' = [file_content EXCEPT ![g] = content]
           /\ file_tokens' = [file_tokens EXCEPT ![g] = file_tokens[g] + chunk_tokens]
           /\ total_tokens' = [total_tokens EXCEPT ![Counter(g)] = total]
           /\ IF OverLimit(total, token_limit[g])
                 THEN /\ out' = [out EXCEPT ![g] = Append(out[g], Record(total, Cur(g), content))]
                      /\ pc' = [pc EXCEPT ![g] = "yield99"]
                      /\ running' = 0
                 ELSE UNCHANGED <<out, pc, running>>
    /\ UNCHANGED <<fs, cfg, chunk_size, token_limit, idx, handle, call, result>>

\* mutant: the end-of-file yield is made for files without tokens too
HasTokensOrNone(ftok) == ftok >= 0

\* the test of line 103
HasTokens(ftok) == ftok > 0

\* lines 85-87 and 103-104: read returns "", the with block is left (the file is
\* closed) and the file's record is yielded if it has tokens
ReadEof(g) ==
    /\ running = g
    /\ pc[g] = "read"
    /\ ~ReadRaises(Cur(g), nreads[g] + 1)
    /\ ReadAt(Cur(g), fpos[g], chunk_size[g]) = <<>>
    /\ nreads' = [nreads EXCEPT ![g] = nreads[g] + 1]
    /\ handle' = [handle EXCEPT ![g] = FALSE]
    /\ IF HasTokens(file_tokens[g])
          THEN /\ out' = [out EXCEPT ![g] =
                             Append(out[g], Record(file_tokens[g], Cur(g), file_content[g]))]
               /\ pc' = [pc EXCEPT ![g] = "yield104"]
               /\ running' = 0
          ELSE /\ pc' = [pc EXCEPT ![g] = "line113"]
               /\ UNCHANGED <<out, running>>
    /\ UNCHANGED <<fs, cfg, chunk_size, token_limit, idx, fpos, file_content,
                   file_tokens, total_tokens, call, result>>

\* line 85 raises UnicodeDecodeError: the with block closes the file on the way out
ReadFails(g) ==
    /\ running = g
    /\ pc[g] = "read"
    /\ ReadRaises(Cur(g), nreads[g] + 1)
    /\ nreads' = [nreads EXCEPT ![g] = nreads[g] + 1]
    /\ handle' = [handle EXCEPT ![g] = FALSE]
    /\ pc' = [pc EXCEPT ![g] = "except"]
    /\ UNCHANGED <<fs, cfg, chunk_size, token_limit, running, idx, fpos, file_content,
                   file_tokens, total_tokens, out, call, result>>

\* mutant: the handler swallows the failure whatever skip_unreadable says
ExceptSwallows(g) ==
    /\ running = g
    /\ pc[g] = "except"
    /\ pc' = [pc EXCEPT ![g] = "for"]
    /\ UNCHANGED <<fs, cfg, chunk_size, token_limit, running, idx, handle, nreads, fpos,
                   file_content, file_tokens, total_tokens, out, call, result>>

\* lines 106-110: continue with the next path, or re-raise to the caller
Except(g) ==
    /\ running = g
    /\ pc[g] = "except"
    /\ IF cfg.skip_unreadable
          THEN /\ pc' = [pc EXCEPT ![g] = "for"]
               /\ UNCHANGED running
          ELSE /\ pc' = [pc EXCEPT ![g] = "raised"]
               /\ running' = 0
    /\ UNCHANGED <<fs, cfg, chunk_size, token_limit, idx, handle, nreads, fpos,
                   file_content, file_tokens, total_tokens, out, call, result>>

\* line 100: return after the budget record; leaving the with block closes the file
Return100(g) ==
    /\ running = g
    /\ pc[g] = "return100"
    /\ handle' = [handle EXCEPT ![g] = FALSE]
    /\ pc' = [pc EXCEPT ![g] = "done"]
    /\ running' = 0
    /\ UNCHANGED <<fs, cfg, chunk_size, token_limit, idx, nreads, fpos, file_content,
                   file_tokens, total_tokens, out, call, result>>

\* lines 113-114: the skip_empty test; both of its branches go on to the next path
Line113(g) ==
    /\ running = g
    /\ pc[g] = "line113"
    /\ IF cfg.skip_empty /\ file_content[g] = <<>>
          THEN pc' = [pc EXCEPT ![g] = "for"]
          ELSE pc' = [pc EXCEPT ![g] = "for"]
    /\ UNCHANGED <<fs, cfg, chunk_size, token_limit, running, idx, handle, nreads,
                   fpos, file_content, file_tokens, total_tokens, out, call, result>>

(***************************************************************************)
(* iter_files run to its end by one caller, as a function of its inputs    *)
(***************************************************************************)
\* the while loop of lines 84-100 on file n, from read number k + 1
RECURSIVE ReadLoop(_, _, _, _, _, _, _, _)
ReadLoop(n, size, limit, k, p, content, ftok, total) ==
    IF ReadRaises(n, k + 1)
       THEN [kind |-> "error", tokens |-> ftok, content |-> content, total |-> total]
       ELSE LET raw == ReadAt(n, p, size)
                chunk == Strip(raw)
                t == CountTokens(chunk)
            IN  IF raw = <<>>
                   THEN [kind |-> "eof", tokens |-> ftok, content |-> content, total |-> total]
                   ELSE IF OverLimit(total + t, limit)
                           THEN [kind |-> "limit", tokens |-> ftok + t,
                                 content |-> content \o chunk, total |-> total + t]
                           ELSE ReadLoop(n, size, limit, k + 1, p + Len(raw),
                                         content \o chunk, ftok + t, total + t)

\* the for loop of lines 78-114 over the paths ps
RECURSIVE FilesLoop(_, _, _, _, _)
FilesLoop(ps, size, limit, total, acc) ==
    IF ps = <<>> THEN [out |-> acc, status |-> "done"]
    ELSE LET n == Head(ps)
             r == ReadLoop(n, size, limit, 0, 0, <<>>, 0, total)
         IN  CASE r.kind = "limit" ->
                    [out |-> Append(acc, Record(r.total, n, r.content)), status |-> "done"]
               [] r.kind = "error" ->
                    IF cfg.skip_unreadable
                       THEN FilesLoop(Tail(ps), size, limit, r.total, acc)
                       ELSE [out |-> acc, status |-> "raised"]
               [] r.kind = "eof" ->
                    FilesLoop(Tail(ps), size, limit, r.total,
                              IF HasTokens(r.tokens)
                                 THEN Append(acc, Record(r.tokens, n, r.content))
                                 ELSE acc)

IterFiles(size, limit) == FilesLoop(Paths, size, limit, 0, <<>>)

(***************************************************************************)
(* calculate_tokens and get_context                                        *)
(***************************************************************************)
RECURSIVE SumTokens(_)
SumTokens(rs) == IF rs = <<>> THEN 0 ELSE Head(rs).tokens + SumTokens(Tail(rs))

DefaultChunkSize == 1024
DefaultTokenLimit == 10000

\* sum(tokens for tokens, _, __ in self.iter_files(top))
CalculateTokens ==
    LET r == IterFiles(DefaultChunkSize, DefaultTokenLimit)
    IN  IF r.status = "raised" THEN [kind |-> "raise", val |-> 0]
        ELSE [kind |-> "int", val |-> SumTokens(r.out)]

\* f"// File '{path.relative_to(self.directory)}'\n{content}\n"
Section(rec) ==
    <<"/", "/", SP, "F", "i", "l", "e", SP, "'">> \o RelPath(rec.path) \o <<"'", NL>>
        \o rec.content \o <<NL>>

\* mutant: the sections are joined by two line breaks
SeparatorShort == <<NL, NL>>

Separator == <<NL, NL, NL>>

\* sep.join(parts)
RECURSIVE Join(_, _)
Join(sep, parts) ==
    IF parts = <<>> THEN <<>>
    ELSE IF Len(parts) = 1 THEN Head(parts)
    ELSE Head(parts) \o sep \o Join(sep, Tail(parts))

GetContext ==
    LET r == IterFiles(DefaultChunkSize, DefaultTokenLimit)
    IN  IF r.status = "raised" THEN [kind |-> "raise", val |-> <<>>]
        ELSE [kind |-> "text",
              val |-> Join(Separator, [i \in 1..Len(r.out) |-> Section(r.out[i])])]

(***************************************************************************)
(* Whole calls on the provider                                             *)
(***************************************************************************)
CallFileMatches(n) ==
    /\ call' = [op |-> "_file_matches", arg |-> n]
    /\ result' = [kind |-> "bool", val |-> FileMatches(n)]
    /\ UNCHANGED <<fs, cfg>>
    /\ UNCHANGED genVars

CallIterFilePaths ==
    /\ call' = [op |-> "iter_file_paths", arg |-> 0]
    /\ result' = [kind |-> "paths", val |-> IterFilePaths(0)]
    /\ UNCHANGED <<fs, cfg>>
    /\ UNCHANGED genVars

CallCalculateTokens ==
    /\ call' = [op |-> "calculate_tokens", arg |-> 0]
    /\ result' = CalculateTokens
    /\ UNCHANGED <<fs, cfg>>
    /\ UNCHANGED genVars

CallGetContext ==
    /\ call' = [op |-> "get_context", arg |-> 0]
    /\ result' = GetContext
    /\ UNCHANGED <<fs, cfg>>
    /\ UNCHANGED genVars

(***************************************************************************)
(* Specifications                                                          *)
(***************************************************************************)
MaxChunkSize == 2
MaxTokenLimit == 2

ChunkSizes == 1..MaxChunkSize
TokenLimits == {0 - 1} \cup (0..MaxTokenLimit)

NoCall == [op |-> "none", arg |-> 0]
NoResult == [kind |-> "none", val |-> 0]

\* the constructor arguments of the traversal specification: the walker's options
\* other than allow_hidden keep their defaults
GenArgs ==
    [regex_whitelist : {Absent}, regex_blacklist : {Absent},
     allow_hidden : BOOLEAN, recursive : {TRUE},
     allow_hidden_subdirectories : {FALSE},
     regex_path_whitelist : {Absent}, regex_path_blacklist : {Absent},
     skip_unreadable : BOOLEAN, skip_empty : BOOLEAN]

\* the constructor arguments of the call specification
CallArgs ==
    [regex_whitelist : {Absent, Given(<<"a">>), Given(<<"\\.", "p", "$">>)},
     regex_blacklist : {Absent, Given(<<>>), Given(<<"^", "e">>)},
     allow_hidden : BOOLEAN, recursive : BOOLEAN,
     allow_hidden_subdirectories : BOOLEAN,
     regex_path_whitelist : {Absent, Given(<<"d", "/">>), Given(<<"/", ".", "$">>)},
     regex_path_blacklist : {Absent, Given(<<"g">>), Given(<<"^", "r", "/", "d">>)},
     skip_unreadable : BOOLEAN, skip_empty : BOOLEAN]

GenInit ==
    /\ running = 0
    /\ pc = [g \in Gens |-> "new"]
    /\ idx = [g \in Gens |-> 0]
    /\ handle = [g \in Gens |-> FALSE]
    /\ nreads = [g \in Gens |-> 0]
    /\ fpos = [g \in Gens |-> 0]
    /\ file_content = [g \in Gens |-> <<>>]
    /\ file_tokens = [g \in Gens |-> 0]
    /\ total_tokens = [g \in Gens |-> 0]
    /\ out = [g \in Gens |-> <<>>]

Init ==
    /\ fs \in Trees
    /\ cfg \in {Construct(a) : a \in GenArgs}
    /\ chunk_size \in [Gens -> ChunkSizes]
    /\ token_limit \in [Gens -> TokenLimits]
    /\ GenInit
    /\ call = NoCall
    /\ result = NoResult

Next ==
    \E g \in Gens :
        \/ Pull(g)
        \/ Start(g)
        \/ ForNext(g)
        \/ OpenFile(g)
        \/ ReadChunk(g)
        \/ ReadEof(g)
        \/ ReadFails(g)
        \/ Except(g)
        \/ Return100(g)
        \/ Line113(g)

Spec == Init /\ [][Next]_vars

CallInit ==
    /\ fs \in Trees
    /\ cfg \in {Construct(a) : a \in CallArgs}
    /\ chunk_size = [g \in Gens |-> DefaultChunkSize]
    /\ token_limit = [g \in Gens |-> DefaultTokenLimit]
    /\ GenInit
    /\ call = NoCall
    /\ result = NoResult

CallNext ==
    \/ \E n \in Nodes : CallFileMatches(n)
    \/ CallIterFilePaths
    \/ CallCalculateTokens
    \/ CallGetContext

CallSpec == CallInit /\ [][CallNext]_vars

(***************************************************************************)
(* Properties                                                              *)
(***************************************************************************)
Last(sq) == sq[Len(sq)]
IsPrefix(a, b) == Len(a) <= Len(b) /\ SubSeq(b, 1, Len(a)) = a
Stopped == {"yield99", "return100", "done"}
HasRecordFor(g, n) == \E i \in 1..Len(out[g]) : out[g][i].path = n
HasNonSpace(txt) == \E i \in 1..Len(txt) : txt[i] # SP

C2_SumIsRunningTotal ==
    \A g \in Gens :
        pc[g] \in Stopped =>
            \/ SumTokens(out[g]) <= token_limit[g]
            \/ /\ total_tokens[g] > token_limit[g]
               /\ SumTokens(out[g]) = total_tokens[g]

\* the five rules of the path filter, each on its own
Rule1(n) == cfg.allow_hidden \/ ~StartsWithDot(Name(n))
Rule2(n) == ~cfg.regex_whitelist.set \/ Search(cfg.regex_whitelist.pat, Name(n))
Rule3(n) == ~cfg.regex_blacklist.set \/ ~Search(cfg.regex_blacklist.pat, Name(n))
Rule4(n) == ~cfg.regex_path_whitelist.set \/ Search(cfg.regex_path_whitelist.pat, PathStr(n))
Rule5(n) == ~cfg.regex_path_blacklist.set \/ ~Search(cfg.regex_path_blacklist.pat, PathStr(n))

\* C3: _file_matches(path) returns true exactly when all five rules pass (hidden
\* name, name whitelist, name blacklist, path whitelist, path blacklist, each by
\* regex search); any single failing rule excludes the file.
C3_FiveRules ==
    call.op = "_file_matches" =>
        result.val = (Rule1(call.arg) /\ Rule2(call.arg) /\ Rule3(call.arg)
                        /\ Rule4(call.arg) /\ Rule5(call.arg))

\* C3 witness: a file in a subdirectory that only the path blacklist excludes, with
\* the four other patterns and flags in force and passing
C3_Witness ==
    /\ call.op = "_file_matches"
    /\ result.val = FALSE
    /\ fs[call.arg].parent # 0
    /\ cfg.regex_whitelist.set /\ cfg.regex_blacklist.set /\ cfg.regex_path_whitelist.set
    /\ Rule1(call.arg) /\ Rule2(call.arg) /\ Rule3(call.arg) /\ Rule4(call.arg)
    /\ ~Rule5(call.arg)

NoRegex ==
    /\ ~cfg.regex_whitelist.set
    /\ ~cfg.regex_blacklist.set
    /\ ~cfg.regex_path_whitelist.set
    /\ ~cfg.regex_path_blacklist.set

Range(sq) == {sq[i] : i \in 1..Len(sq)}
NoDuplicates(sq) == \A i, j \in 1..Len(sq) : sq[i] = sq[j] => i = j

\* C4 as stated: with no regex filter, iter_file_paths yields exactly the regular
\* files under the root (at every level if recursive, else the root's own entries),
\* without the dot files unless allow_hidden, each once.
C4_AllReachableFiles ==
    (call.op = "iter_file_paths" /\ NoRegex) =>
        /\ Range(result.val) =
              {n \in Nodes : /\ IsFile(n)
                             /\ cfg.recursive \/ fs[n].parent = 0
                             /\ cfg.allow_hidden \/ ~StartsWithDot(fs[n].name)}
        /\ NoDuplicates(result.val)

\* every directory between the root and n may be descended into
RECURSIVE WayOpen(_)
WayOpen(n) ==
    \/ fs[n].parent = 0
    \/ /\ cfg.recursive
       /\ cfg.allow_hidden_subdirectories \/ ~StartsWithDot(fs[fs[n].parent].name)
       /\ WayOpen(fs[n].parent)

\* C4 amended: as C4, but a file below the root counts only if no directory on the
\* way to it is hidden, unless allow_hidden_subdirectories is true.
C4_ReachableThroughVisibleDirs ==
    (call.op = "iter_file_paths" /\ NoRegex) =>
        /\ Range(result.val) =
              {n \in Nodes : /\ IsFile(n)
                             /\ WayOpen(n)
                             /\ cfg.allow_hidden \/ ~StartsWithDot(fs[n].name)}
        /\ NoDuplicates(result.val)

\* C4 witness: a recursive walk without filters that yields a file of a subdirectory
\* and leaves out a visible file of a hidden subdirectory
C4_Witness ==
    /\ call.op = "iter_file_paths"
    /\ NoRegex
    /\ cfg.recursive
    /\ ~cfg.allow_hidden_subdirectories
    /\ \E n \in Range(result.val) : fs[n].parent # 0
    /\ \E n \in Nodes : /\ IsFile(n)
                        /\ ~StartsWithDot(fs[n].name)
                        /\ ~WayOpen(n)
                        /\ n \notin Range(result.val)

\* C5: when a read raises a decode failure, no record has been yielded for that
\* file; with skip_unreadable the traversal goes on to the next path and never
\* yields a record for the file; without it the failure reaches the caller and no
\* record is yielded afterwards.
C5_DecodeFailure ==
    [][\A g \in Gens :
        /\ (pc[g] = "read" /\ pc'[g] = "except") => ~HasRecordFor(g, Cur(g))
        /\ pc[g] = "except" =>
              /\ out'[g] = out[g]
              /\ idx'[g] = idx[g]
              /\ IF cfg.skip_unreadable
                    THEN pc'[g] = "for" /\ running' = g
                    ELSE pc'[g] = "raised" /\ running' = 0
        /\ (pc[g] = "for" /\ pc'[g] # "for") =>
              IF idx[g] < Len(Paths)
                 THEN pc'[g] = "open" /\ idx'[g] = idx[g] + 1
                 ELSE pc'[g] = "done" /\ idx'[g] = idx[g]
        /\ out'[g] # out[g] =>
              /\ out'[g] = Append(out[g], Last(out'[g]))
              /\ Last(out'[g]).path = Cur(g)
              /\ idx'[g] = idx[g]
              /\ pc[g] = "read"
        /\ pc[g] = "raised" => pc'[g] = "raised" /\ out'[g] = out[g]
      ]_vars

\* C5 witness: a finished traversal that passed over a file whose read raised and
\* yielded a record for a later file
C5_Witness ==
    \E g \in Gens :
        /\ pc[g] = "done"
        /\ cfg.skip_unreadable
        /\ \E i \in 1..Len(Paths) :
              /\ i < idx[g]
              /\ fs[Paths[i]].failAt = 1
              /\ ~HasRecordFor(g, Paths[i])
              /\ \E j \in (i + 1)..Len(Paths) : HasRecordFor(g, Paths[j])

\* C6 as stated: with token_limit = 0 and a non-empty first file, the traversal
\* yields exactly one record, for that first file, with more than 0 tokens, and
\* processes no second file.
C6_NonEmptyFileStops ==
    \A g \in Gens :
        (/\ token_limit[g] = 0
         /\ pc[g] = "done"
         /\ Paths # <<>>
         /\ fs[Paths[1]].content # <<>>
         /\ fs[Paths[1]].failAt = 0) =>
            /\ Len(out[g]) = 1
            /\ out[g][1].path = Paths[1]
            /\ out[g][1].tokens > 0
            /\ idx[g] = 1

\* C6 amended: with token_limit = 0 at most one record is yielded, it has more than
\* 0 tokens and ends the traversal at its file; a first file that holds a character
\* other than whitespace (and is read without failure) is that file, and no second
\* file is processed.
C6_FirstTokenStops ==
    \A g \in Gens :
        token_limit[g] = 0 =>
            /\ Len(out[g]) <= 1
            /\ Len(out[g]) = 1 =>
                  /\ out[g][1].tokens > 0
                  /\ out[g][1].path = Cur(g)
                  /\ pc[g] \in Stopped
            /\ (/\ pc[g] = "done"
                /\ Paths # <<>>
                /\ HasNonSpace(fs[Paths[1]].content)
                /\ fs[Paths[1]].failAt = 0) =>
                  /\ Len(out[g]) = 1
                  /\ out[g][1].path = Paths[1]
                  /\ idx[g] = 1

\* C6 witness: limit 0, the first file holds a token, one record, later paths untouched
C6_Witness ==
    \E g \in Gens :
        /\ token_limit[g] = 0
        /\ pc[g] = "done"
        /\ Len(Paths) > 1
        /\ HasNonSpace(fs[Paths[1]].content)
        /\ Len(out[g]) = 1
        /\ idx[g] = 1

\* C7: whenever iter_files has handed control to its caller (after a yield, at its
\* end, after a failure) and whenever it moves on to the next file, the file handle
\* of the current file is closed.
C7_HandleClosed ==
    \A g \in Gens :
        pc[g] \in {"yield99", "yield104", "done", "raised", "for", "open"} => ~handle[g]

\* C8: with skip_empty no yielded record has empty content
C8_NoEmptyRecord ==
    cfg.skip_empty =>
        \A g \in Gens : \A i \in 1..Len(out[g]) : out[g][i].content # <<>>

\* C9: two interleaved traversals of one provider each start their running total at
\* 0 and each yield what they would yield alone: at every moment a prefix of the
\* records of a lone run with the same arguments, and all of them at the end.
C9_Independent ==
    \A g \in Gens :
        LET alone == IterFiles(chunk_size[g], token_limit[g])
        IN  /\ IsPrefix(out[g], alone.out)
            /\ (pc[g] = "for" /\ idx[g] = 0) => total_tokens[g] = 0
            /\ pc[g] = "done" => (out[g] = alone.out /\ alone.status = "done")
            /\ pc[g] = "raised" => (out[g] = alone.out /\ alone.status = "raised")

\* C9 witness: traversal 1 has delivered its budget record while traversal 2 is
\* suspended in mid-traversal with more records than traversal 1 will ever yield
C9_Witness ==
    /\ pc[1] = "yield99"
    /\ Len(out[1]) = 1
    /\ pc[2] = "yield104"
    /\ Len(out[2]) = 2
    /\ idx[2] < Len(Paths)

\* the header line of a record's section, without its line break
C10_Header(rec) ==
    <<"/", "/", " ", "F", "i", "l", "e", " ", "'">> \o RelPath(rec.path) \o <<"'">>

C10_SectionLen(rec) == Len(C10_Header(rec)) + 1 + Len(rec.content) + 1

RECURSIVE C10_Offset(_, _)
C10_Offset(rs, i) ==
    IF i = 1 THEN 0 ELSE C10_Offset(rs, i - 1) + C10_SectionLen(rs[i - 1]) + 3

\* C10: get_context is one section per record of iter_files with the default
\* arguments, in order: the header line with the path relative to the root, the
\* content, a line break; three line breaks between sections; "" with no records.
C10_Sections ==
    (call.op = "get_context" /\ result.kind = "text") =>
        LET rs == IterFiles(DefaultChunkSize, DefaultTokenLimit).out
            txt == result.val
            n == Len(rs)
        IN  /\ n = 0 => txt = <<>>
            /\ n > 0 => Len(txt) = C10_Offset(rs, n) + C10_SectionLen(rs[n])
            /\ \A i \in 1..n :
                  LET o == C10_Offset(rs, i)
                      h == Len(C10_Header(rs[i]))
                      c == Len(rs[i].content)
                  IN  /\ SubSeq(txt, o + 1, o + h) = C10_Header(rs[i])
                      /\ txt[o + h + 1] = "\n"
                      /\ SubSeq(txt, o + h + 2, o + h + 1 + c) = rs[i].content
                      /\ txt[o + h + c + 2] = "\n"
                      /\ i < n => SubSeq(txt, o + h + c + 3, o + h + c + 5) = <<"\n", "\n", "\n">>

\* C10 witness: a context of at least two sections, one of them for a file of a
\* subdirectory
C10_Witness ==
    /\ call.op = "get_context"
    /\ result.kind = "text"
    /\ Len(IterFiles(DefaultChunkSize, DefaultTokenLimit).out) >= 2
    /\ \E i \in 1..Len(IterFiles(DefaultChunkSize, DefaultTokenLimit).out) :
          fs[IterFiles(DefaultChunkSize, DefaultTokenLimit).out[i].path].parent # 0

====
